---- MODULE Spec2Model ----
(***************************************************************************)
(* Model of src/server.ts of mcp-safesql: the two tool handlers            *)
(* (sql.query, sql.explain_safe) and the pure helpers they call.           *)
(* Text is modelled as sequences of one-character strings, so that the     *)
(* regular expressions and string operations of the source are computed,   *)
(* not assumed.                                                            *)
(***************************************************************************)
EXTENDS Integers, Sequences, FiniteSets, TLC

(* ------------------------------ bounds -------------------------------- *)
\* longest value built from Chunks in the masking specification
MaxChunks == 3
\* rows the database holds for a view (more than MAX_ROWS)
MaxDbRows == 3

(* --------------------------- text helpers ----------------------------- *)
Chars(s) == [i \in 1..Len(s) |-> SubSeq(s, i, i)]

\* an absent schema name
None == <<>>

UpperLetters == Chars("ABCDEFGHIJKLMNOPQRSTUVWXYZ")
LowerLetters == Chars("abcdefghijklmnopqrstuvwxyz")
DigitChars == {"0", "1", "2", "3", "4", "5", "6", "7", "8", "9"}

Range(s) == {s[i] : i \in 1..Len(s)}

UpperSet == Range(UpperLetters)
LetterSet == Range(UpperLetters) \cup Range(LowerLetters)

IsDigit(c) == c \in DigitChars
IsLetter(c) == c \in LetterSet
\* \w of a JavaScript regular expression
IsWordChar(c) == IsLetter(c) \/ IsDigit(c) \/ c = "_"
\* \s of a JavaScript regular expression (the characters the model uses)
IsSpace(c) == c \in {" ", "\t", "\n"}

ToLowerChar(c) ==
  IF c \in UpperSet
    THEN LowerLetters[CHOOSE i \in 1..Len(UpperLetters) : UpperLetters[i] = c]
    ELSE c

\* String.prototype.toLowerCase
ToLower(s) == [i \in 1..Len(s) |-> ToLowerChar(s[i])]

\* "*".repeat(n)
Stars(n) == [i \in 1..n |-> "*"]

\* s.startsWith(p, i): p occurs in s at position i
OccursAt(s, p, i) ==
  /\ i >= 1
  /\ i + Len(p) - 1 <= Len(s)
  /\ \A k \in 1..Len(p) : s[i + k - 1] = p[k]

\* String.prototype.includes
Includes(s, p) == \E i \in 1..(Len(s) + 1) : OccursAt(s, p, i)

RECURSIVE SplitFrom(_, _, _, _)
\* the parts of s from position i on, cur being the part under construction
SplitFrom(s, sep, i, cur) ==
  IF i > Len(s) THEN <<cur>>
  ELSE IF OccursAt(s, sep, i)
    THEN <<cur>> \o SplitFrom(s, sep, i + Len(sep), <<>>)
    ELSE SplitFrom(s, sep, i + 1, Append(cur, s[i]))

\* String.prototype.split with a non-empty string separator
Split(s, sep) == SplitFrom(s, sep, 1, <<>>)

RECURSIVE Join(_, _)
\* Array.prototype.join
Join(parts, sep) ==
  IF Len(parts) = 0 THEN <<>>
  ELSE IF Len(parts) = 1 THEN parts[1]
  ELSE parts[1] \o sep \o Join(Tail(parts), sep)

\* String.prototype.trim
Trim(s) ==
  IF \A i \in 1..Len(s) : IsSpace(s[i]) THEN <<>>
  ELSE LET a == CHOOSE i \in 1..Len(s) :
                  ~IsSpace(s[i]) /\ \A j \in 1..(i - 1) : IsSpace(s[j])
           b == CHOOSE i \in 1..Len(s) :
                  ~IsSpace(s[i]) /\ \A j \in (i + 1)..Len(s) : IsSpace(s[j])
       IN SubSeq(s, a, b)

RECURSIVE NumToStr(_)
\* template-literal formatting of a non-negative integer
NumToStr(n) ==
  LET d == CHOOSE c \in DigitChars :
             \E k \in 0..9 : k = n % 10 /\ c = Chars("0123456789")[k + 1]
  IN IF n < 10 THEN <<d>> ELSE NumToStr(n \div 10) \o <<d>>

(* ---------------------------- PII masking ------------------------------ *)
\* /^[^@\s]+@[^@\s]+\.[^@\s]+$/ : no white space, exactly one "@" with a
\* non-empty local part, and a "." strictly inside the part after the "@"
looksLikeEmail(v) ==
  /\ \A i \in 1..Len(v) : ~IsSpace(v[i])
  /\ \E p \in 2..Len(v) :
       /\ v[p] = "@"
       /\ \A i \in 1..Len(v) : v[i] = "@" => i = p
       /\ \E j \in (p + 2)..(Len(v) - 1) : v[j] = "."

PhoneClass(c) == IsDigit(c) \/ IsSpace(c) \/ c \in {"-", "(", ")", "."}

\* /(\+?\d[\d\-\s().]{6,})/ (unanchored): a digit followed by six or more
\* characters of the class
looksLikePhone(v) ==
  \E i \in 1..Len(v) :
    /\ IsDigit(v[i])
    /\ i + 6 <= Len(v)
    /\ \A k \in 1..6 : PhoneClass(v[i + k])

\* /^\d{3}-\d{2}-\d{4}$/
looksLikeSSN(v) ==
  /\ Len(v) = 11
  /\ \A i \in {1, 2, 3, 5, 6, 8, 9, 10, 11} : IsDigit(v[i])
  /\ v[4] = "-"
  /\ v[7] = "-"

shouldMaskByColumn(col) ==
  LET c == ToLower(col) IN
    \/ Includes(c, Chars("email"))
    \/ Includes(c, Chars("phone"))
    \/ Includes(c, Chars("mobile"))
    \/ (Includes(c, Chars("contact")) /\ Includes(c, Chars("number")))
    \/ Includes(c, Chars("ssn"))
    \/ (Includes(c, Chars("social")) /\ Includes(c, Chars("security")))

\* d.replace(/(?<=.).(?=.*\.)/g, "*"): a character that has a character
\* before it and a "." somewhere after it
MaskDomain(d) ==
  [i \in 1..Len(d) |->
     IF i > 1 /\ \E j \in (i + 1)..Len(d) : d[j] = "." THEN "*" ELSE d[i]]

maskEmail(value) ==
  LET parts == Split(value, <<"@">>)
      u == parts[1]
      d == IF Len(parts) >= 2 THEN parts[2] ELSE <<>>
      uMasked == IF Len(u) <= 2 THEN Stars(Len(u))
                 ELSE <<u[1]>> \o Stars(Len(u) - 2) \o <<u[Len(u)]>>
  IN IF Len(d) = 0
       \* value.replace(/.(?=.{2})/g, "*")
       THEN [i \in 1..Len(value) |-> IF i + 2 <= Len(value) THEN "*" ELSE value[i]]
       ELSE uMasked \o <<"@">> \o MaskDomain(d)

\* value.replace(/\d(?=\d{2}\b)/g, "*"): a digit followed by two digits
\* that end at a word boundary
maskPhone(value) ==
  [i \in 1..Len(value) |->
     IF /\ IsDigit(value[i])
        /\ i + 2 <= Len(value)
        /\ IsDigit(value[i + 1])
        /\ IsDigit(value[i + 2])
        /\ (i + 2 = Len(value) \/ ~IsWordChar(value[i + 3]))
       THEN "*" ELSE value[i]]

\* value.replace(/^\d{3}-\d{2}/, "***-**")
maskSSN(value) ==
  IF /\ Len(value) >= 6
     /\ \A i \in {1, 2, 3, 5, 6} : IsDigit(value[i])
     /\ value[4] = "-"
    THEN Chars("***-**") \o SubSeq(value, 7, Len(value))
    ELSE value

\* v.replace(/[A-Za-z0-9]/g, "*")
maskGeneric(v) ==
  [i \in 1..Len(v) |-> IF IsLetter(v[i]) \/ IsDigit(v[i]) THEN "*" ELSE v[i]]

(* Values of a result row: null, string, number or boolean. *)
StrVal(s) == [kind |-> "string", s |-> s]
NumVal(n) == [kind |-> "number", n |-> n]
BoolVal(b) == [kind |-> "boolean", b |-> b]
NullVal == [kind |-> "null"]

\* maskValue with the phone pattern tested before the SSN pattern
maskValuePhoneFirst(col, v) ==
  IF v.kind # "string" THEN v
  ELSE IF \/ shouldMaskByColumn(col)
          \/ looksLikeEmail(v.s)
          \/ looksLikePhone(v.s)
          \/ looksLikeSSN(v.s)
    THEN IF looksLikeEmail(v.s) THEN StrVal(maskEmail(v.s))
         ELSE IF looksLikePhone(v.s) THEN StrVal(maskPhone(v.s))
         ELSE IF looksLikeSSN(v.s) THEN StrVal(maskSSN(v.s))
         ELSE StrVal(maskGeneric(v.s))
    ELSE v

\* maskValue without the typeof test: a number is masked as its text
maskValueAnyType(col, v) ==
  IF v.kind = "null" \/ v.kind = "boolean" THEN v
  ELSE LET s == IF v.kind = "number" THEN NumToStr(v.n) ELSE v.s
       IN IF \/ shouldMaskByColumn(col)
             \/ looksLikeEmail(s)
             \/ looksLikePhone(s)
             \/ looksLikeSSN(s)
            THEN IF looksLikeEmail(s) THEN StrVal(maskEmail(s))
                 ELSE IF looksLikeSSN(s) THEN StrVal(maskSSN(s))
                 ELSE IF looksLikePhone(s) THEN StrVal(maskPhone(s))
                 ELSE StrVal(maskGeneric(s))
            ELSE v

maskValue(col, v) ==
  IF v.kind # "string" THEN v
  ELSE IF \/ shouldMaskByColumn(col)
          \/ looksLikeEmail(v.s)
          \/ looksLikePhone(v.s)
          \/ looksLikeSSN(v.s)
    THEN IF looksLikeEmail(v.s) THEN StrVal(maskEmail(v.s))
         ELSE IF looksLikeSSN(v.s) THEN StrVal(maskSSN(v.s))
         ELSE IF looksLikePhone(v.s) THEN StrVal(maskPhone(v.s))
         ELSE StrVal(maskGeneric(v.s))
    ELSE v

\* a row is an ordered list of <<key, value>> pairs
maskRow(r) == [i \in 1..Len(r) |-> <<r[i][1], maskValue(r[i][1], r[i][2])>>]

maskRows(rows) == [i \in 1..Len(rows) |-> maskRow(rows[i])]

(* ------------------------------ config -------------------------------- *)
\* const MAX_ROWS = Number(process.env.MAX_ROWS || 200), here configured to 2
MAX_ROWS == 2

\* the values of process.env.DB_TYPE and process.env.SAFE_VIEWS considered
DbTypeEnvs == {<<>>, Chars("sqlite"), Chars("Postgres"), Chars("mysql")}
SafeViewsEnvs ==
  {<<>>, Chars("safe_users_v"), Chars(" Safe_Users_V , public.safe_users_v,"),
   Chars(" , ")}

\* (process.env.DB_TYPE || "sqlite").toLowerCase()
ReadDbType(env) == ToLower(IF env = <<>> THEN Chars("sqlite") ELSE env)

\* (process.env.SAFE_VIEWS || "safe_users_v").split(",").map(trim)
\*   .filter(Boolean).map(toLowerCase)
ReadSafeViews(env) ==
  LET parts == Split(IF env = <<>> THEN Chars("safe_users_v") ELSE env, <<",">>)
      trimmed == [i \in 1..Len(parts) |-> Trim(parts[i])]
      kept == SelectSeq(trimmed, LAMBDA x : x # <<>>)
  IN [i \in 1..Len(kept) |-> ToLower(kept[i])]

(* ------------------------- SQL text and parser ------------------------- *)
(* A request is SQL text together with the structure the grammar library   *)
(* (node-sql-parser) finds in it: the text is rendered from the structure,  *)
(* the handlers read the text, the library calls read the structure.        *)
SafeView == Chars("safe_users_v")
MixedView == Chars("Safe_Users_V")
SecretTable == Chars("secret_table")

Ref(schema, table) == [schema |-> schema, table |-> table]

Refs ==
  {Ref(None, SafeView), Ref(None, MixedView), Ref(None, SecretTable),
   Ref(Chars("public"), SafeView), Ref(Chars("null"), SafeView)}

FromLists ==
  {<<>>} \cup {<<r>> : r \in Refs} \cup {<<Ref(None, SafeView), r>> : r \in Refs}

\* where a LIMIT occurs below the top level: nowhere, in a subquery, or in
\* a string literal
Inners == {"none", "subquery", "literal"}
\* the top-level LIMIT: 0 is no LIMIT clause
TopLimits == {0, 1, MAX_ROWS + 1}

Select(from, inner, top, lower) ==
  [type |-> Chars("select"), from |-> from, inner |-> inner, top |-> top,
   lower |-> lower]
Update(r) ==
  [type |-> Chars("update"), from |-> <<r>>, inner |-> "none", top |-> 0,
   lower |-> FALSE]

\* the SELECT statements considered: a LIMIT below the top level needs a
\* FROM clause, and a statement over two relations carries no LIMIT
Selects ==
  {s \in {Select(f, i, t, l) : f \in FromLists, i \in Inners, t \in TopLimits,
                               l \in BOOLEAN} :
     /\ s.from = <<>> => s.inner = "none"
     /\ s.lower => s.top # 0
     /\ Len(s.from) = 2 => (s.inner = "none" /\ s.top = 0)}

Quote(name) ==
  IF name = Chars("null") THEN <<"\"">> \o name \o <<"\"">> ELSE name

RenderRef(r) ==
  IF r.schema = None THEN r.table ELSE Quote(r.schema) \o <<".">> \o r.table

RenderStmt(s) ==
  IF s.type = Chars("update")
    THEN Chars("UPDATE ") \o RenderRef(s.from[1]) \o Chars(" SET x = 1")
  ELSE (IF s.from = <<>> THEN Chars("SELECT 1")
        ELSE Chars("SELECT * FROM ")
             \o Join([i \in 1..Len(s.from) |-> RenderRef(s.from[i])], Chars(", ")))
       \o (CASE s.inner = "subquery" ->
                  Chars(" WHERE id IN (SELECT id FROM ")
                  \o RenderRef(s.from[1]) \o Chars(" LIMIT 1)")
             [] s.inner = "literal" -> Chars(" WHERE note = 'limit 5'")
             [] OTHER -> <<>>)
       \o (IF s.top = 0 THEN <<>>
           ELSE (IF s.lower THEN Chars(" limit ") ELSE Chars(" LIMIT "))
                \o NumToStr(s.top))

Request(stmts, garbage, pad) ==
  [stmts |-> stmts, garbage |-> garbage,
   sql |-> (IF pad THEN Chars("  ") ELSE <<>>)
           \o (IF garbage THEN Chars("SELEC * FRM ") ELSE <<>>)
           \o Join([i \in 1..Len(stmts) |-> RenderStmt(stmts[i])], Chars("; "))
           \o (IF pad THEN Chars(" \n") ELSE <<>>)]

Requests ==
  {Request(<<s>>, FALSE, FALSE) : s \in Selects}
  \cup {Request(<<Select(<<Ref(None, SafeView)>>, "none", t, FALSE)>>, FALSE, TRUE) :
          t \in TopLimits}
  \cup {Request(<<Update(r)>>, FALSE, FALSE) : r \in {Ref(None, SafeView)}}
  \cup {Request(<<Select(<<r>>, "none", 0, FALSE), Update(r)>>, FALSE, FALSE) :
          r \in {Ref(None, SafeView), Ref(None, SecretTable)}}
  \cup {Request(<<Select(<<Ref(None, SafeView)>>, "none", 0, FALSE)>>, TRUE, FALSE)}

\* parser.astify(sql, {database}): throws on text that does not parse,
\* returns an array for several statements, the statement otherwise
astify(req) ==
  IF req.garbage THEN [threw |-> TRUE, isArray |-> FALSE, type |-> <<>>]
  ELSE IF Len(req.stmts) > 1 THEN [threw |-> FALSE, isArray |-> TRUE, type |-> <<>>]
  ELSE [threw |-> FALSE, isArray |-> FALSE, type |-> req.stmts[1].type]

RECURSIVE Dedup(_)
\* the elements of a list in order of first occurrence (new Set(list))
Dedup(list) ==
  IF list = <<>> THEN <<>>
  ELSE LET rest == Dedup(SubSeq(list, 1, Len(list) - 1))
           last == list[Len(list)]
       IN IF last \in Range(rest) THEN rest ELSE Append(rest, last)

\* every relation a statement touches, the subquery's included
StmtRefs(s) == IF s.inner = "subquery" THEN Append(s.from, s.from[1]) ELSE s.from

\* parser.tableList(sql, {database}): "type::schemaOrNull::table" entries
tableList(req) ==
  LET s == req.stmts[1]
      refs == StmtRefs(s)
  IN Dedup([i \in 1..Len(refs) |->
              s.type \o Chars("::")
              \o (IF refs[i].schema = None THEN Chars("null") ELSE refs[i].schema)
              \o Chars("::") \o refs[i].table])

(* ----------------------------- SQL safety ------------------------------ *)
\* assertSelectOnly without the Array.isArray test: an array has no type
assertSelectOnlyNoArrayTest(req) ==
  LET ast == astify(req) IN
    IF ast.threw THEN "ParseError"
    ELSE IF ToLower(ast.type) # Chars("select") THEN "NotSelectError"
    ELSE "ok"

assertSelectOnly(req) ==
  LET ast == astify(req) IN
    IF ast.threw THEN "ParseError"
    ELSE IF ast.isArray THEN "MultipleStatementsError"
    ELSE IF ToLower(ast.type) # Chars("select") THEN "NotSelectError"
    ELSE "ok"

NormalizeEntry(s) ==
  LET parts == Split(s, Chars("::"))
      p1 == IF Len(parts) >= 2 THEN parts[2] ELSE <<>>
      p2 == IF Len(parts) >= 3 THEN parts[3] ELSE <<>>
      hasSchema == p1 # <<>> /\ p1 # Chars("null")
      table == IF p2 # <<>> THEN p2 ELSE p1
  IN ToLower(IF hasSchema THEN p1 \o <<".">> \o table ELSE table)

tablesUsed(req) ==
  LET list == tableList(req)
  IN SelectSeq([i \in 1..Len(list) |-> NormalizeEntry(list[i])],
               LAMBDA x : x # <<>>)

\* the outcome of assertWhitelisted: "ok", or the error it throws
assertWhitelisted(req, whitelist) ==
  LET used == Dedup(tablesUsed(req))
      allowed == Dedup(whitelist)
      bad == {i \in 1..Len(used) : used[i] \notin Range(allowed)}
  IN IF bad = {} THEN [kind |-> "ok", name |-> <<>>, allowed |-> <<>>]
     ELSE [kind |-> "ForbiddenRelationError",
           name |-> used[CHOOSE i \in bad : \A j \in bad : i <= j],
           allowed |-> Join(allowed, Chars(", "))]

\* /limit\s+\d+/i.test(sql)
HasLimitText(sql) ==
  LET low == ToLower(sql)
      word == Chars("limit")
  IN \E i \in 1..Len(sql) :
    /\ OccursAt(low, word, i)
    /\ \E j \in (i + 6)..Len(sql) :
         /\ IsDigit(sql[j])
         /\ \A k \in (i + 5)..(j - 1) : IsSpace(sql[k])

wrapWithLimit(sql, limit) ==
  IF HasLimitText(sql) THEN sql
  ELSE Chars("SELECT * FROM (") \o sql \o Chars(") AS safe_sub LIMIT ")
       \o NumToStr(limit)

(* ---------------------------- safe explain ----------------------------- *)
\* a plan node is a record with op and children, and estimatedRows and
\* totalCost when the plan gives them
\* the character U+2248 (almost equal to), one element of a text
ApproxChar == "U+2248"

RECURSIVE formatTreeOneSpace(_, _)
\* formatTree with one space per depth level
formatTreeOneSpace(n, depth) ==
  LET pad == [i \in 1..depth |-> " "]
      head == pad \o Chars("- ") \o n.op
      kids == [i \in 1..Len(n.children) |->
                 formatTreeOneSpace(n.children[i], depth + 1)]
  IN Join(<<head>> \o kids, <<"\n">>)

RECURSIVE formatTree(_, _)
formatTree(n, depth) ==
  LET pad == [i \in 1..(2 * depth) |-> " "]
      head == pad \o Chars("- ") \o n.op
              \o (IF "estimatedRows" \in DOMAIN n
                    THEN Chars(" (rows") \o <<ApproxChar>> \o NumToStr(n.estimatedRows) \o <<")">>
                    ELSE <<>>)
              \o (IF "totalCost" \in DOMAIN n
                    THEN Chars(" (cost") \o <<ApproxChar>> \o NumToStr(n.totalCost) \o <<")">>
                    ELSE <<>>)
      kids == [i \in 1..Len(n.children) |-> formatTree(n.children[i], depth + 1)]
  IN Join(<<head>> \o kids, <<"\n">>)

genericTree ==
  [op |-> Chars("Select"),
   children |-> <<[op |-> Chars("Scan"), children |-> <<>>]>>]

ExplainNotice ==
  Chars("This is a redacted, generic operator outline (beginner mode):")

(* --------------------------- the database ------------------------------ *)
Row1 ==
  <<<<Chars("id"), NumVal(1)>>,
    <<Chars("email"), StrVal(Chars("john.doe@example.com"))>>,
    <<Chars("notes"), StrVal(Chars("987-65-4321"))>>,
    <<Chars("active"), BoolVal(TRUE)>>>>
Row2 ==
  <<<<Chars("id"), NumVal(2)>>,
    <<Chars("email"), NullVal>>,
    <<Chars("notes"), StrVal(Chars("hello world"))>>,
    <<Chars("active"), BoolVal(FALSE)>>>>
Row3 ==
  <<<<Chars("id"), NumVal(3)>>,
    <<Chars("email"), StrVal(Chars("a@mail.example.com"))>>,
    <<Chars("notes"), StrVal(Chars("555-123-4567"))>>,
    <<Chars("active"), BoolVal(TRUE)>>>>
RowPool == <<Row1, Row2, Row3>>

\* the rows a whitelisted view holds
DbTable == [i \in 1..MaxDbRows |-> RowPool[((i - 1) % Len(RowPool)) + 1]]

RECURSIVE StrToNum(_)
StrToNum(s) ==
  IF s = <<>> THEN 0
  ELSE 10 * StrToNum(SubSeq(s, 1, Len(s) - 1))
       + (CHOOSE k \in 0..9 : Chars("0123456789")[k + 1] = s[Len(s)])

\* the LIMIT of the wrapper when the executed text is a wrapped statement,
\* -1 when it is not
WrapperLimit(sql) ==
  LET pre == Chars("SELECT * FROM (")
      suf == Chars(") AS safe_sub LIMIT ")
      at == {k \in 1..Len(sql) :
               /\ OccursAt(sql, suf, k)
               /\ k + Len(suf) <= Len(sql)
               /\ \A j \in (k + Len(suf))..Len(sql) : IsDigit(sql[j])}
  IN IF OccursAt(sql, pre, 1) /\ at # {}
       THEN StrToNum(SubSeq(sql, (CHOOSE k \in at : TRUE) + Len(suf), Len(sql)))
       ELSE -1

Min(S) == CHOOSE x \in S : \A y \in S : x <= y

\* db.all(safeSql, cb) / c.query(safeSql): the most rows the engine returns
\* for the executed text, every LIMIT on its top-level path applied
RowBound(sql, req) ==
  Min({Len(DbTable)}
      \cup (IF WrapperLimit(sql) >= 0 THEN {WrapperLimit(sql)} ELSE {})
      \cup (IF req.stmts[1].top > 0 THEN {req.stmts[1].top} ELSE {}))

(* ------------------------------- state --------------------------------- *)
VARIABLES
  DB_TYPE,     \* the configured backend
  SAFE_VIEWS,  \* the normalized whitelist
  pc,          \* where the tool call is
  tool,        \* "query" or "explain"
  input,       \* the request of the call
  safeSql,     \* the text handed to the database
  stages,      \* the stages the call has run, in order
  execCount,   \* how many times the call started the external execution
  conn,        \* the call's database handle: "none", "open" or "closed"
  dbRows,      \* the rows the database returned
  pending,     \* the outcome of c.query while c.end() runs
  result,      \* what the call returned or threw
  mrows,       \* masking specification: the rows given to maskRows
  mout,        \* masking specification: the rows maskRows returned
  mpc          \* masking specification: "start" or "done"

vars ==
  <<DB_TYPE, SAFE_VIEWS, pc, tool, input, safeSql, stages, execCount, conn,
    dbRows, pending, result, mrows, mout, mpc>>

callVars == <<pc, tool, input, safeSql, stages, execCount, conn, dbRows, pending, result>>
maskVars == <<mrows, mout, mpc>>
configVars == <<DB_TYPE, SAFE_VIEWS>>

NoError == [kind |-> "none", name |-> <<>>, allowed |-> <<>>]
Failure(kind) == [kind |-> kind, name |-> <<>>, allowed |-> <<>>]
NoResult == [status |-> "none", content |-> <<>>, error |-> NoError]
Thrown(err) == [status |-> "error", content |-> <<>>, error |-> err]
Returned(content) == [status |-> "ok", content |-> content, error |-> NoError]

JsonItem(masked) == [type |-> "json", rows |-> masked, rowsReturned |-> Len(masked)]
TextItem(text) == [type |-> "text", text |-> text]

NoRequest == Request(<<>>, FALSE, FALSE)

IdleCall ==
  /\ pc = "idle"
  /\ tool = "none"
  /\ input = NoRequest
  /\ safeSql = <<>>
  /\ stages = <<>>
  /\ execCount = 0
  /\ conn = "none"
  /\ dbRows = <<>>
  /\ pending = "none"
  /\ result = NoResult

Init ==
  /\ \E e \in DbTypeEnvs : DB_TYPE = ReadDbType(e)
  /\ \E e \in SafeViewsEnvs : SAFE_VIEWS = ReadSafeViews(e)
  /\ IdleCall
  /\ mrows = <<>>
  /\ mout = <<>>
  /\ mpc = "off"

\* the request as the handler sees it: const raw = input.sql.trim()
Trimmed(req) == [req EXCEPT !.sql = Trim(req.sql)]

\* the call throws: the handler ends with the error
Fail(err, ran) ==
  /\ pc' = "done"
  /\ stages' = ran
  /\ result' = Thrown(err)

(* sql.query up to its first await: the safety checks, the row cap and     *)
(* the start of the execution on the configured backend                    *)
QueryCall(req) ==
  /\ pc = "idle"
  /\ tool' = "query"
  /\ input' = Trimmed(req)
  /\ LET raw == Trimmed(req)
         sel == assertSelectOnly(raw)
         wl == assertWhitelisted(raw, SAFE_VIEWS)
         wrapped == wrapWithLimit(raw.sql, MAX_ROWS)
     IN IF sel # "ok"
          THEN /\ Fail(Failure(sel), <<"validate">>)
               /\ UNCHANGED <<safeSql, execCount, conn>>
        ELSE IF wl.kind # "ok"
          THEN /\ Fail(wl, <<"validate", "whitelist">>)
               /\ UNCHANGED <<safeSql, execCount, conn>>
        ELSE IF DB_TYPE = Chars("sqlite")
          \* openSqliteRO(); db.all(safeSql, cb) is under way
          THEN /\ safeSql' = wrapped
               /\ conn' = "open"
               /\ execCount' = execCount + 1
               /\ stages' = <<"validate", "whitelist", "limit", "execute">>
               /\ pc' = "sqliteAll"
               /\ UNCHANGED result
        ELSE IF DB_TYPE = Chars("postgres")
          \* withPgClient: new PgClient(); c.connect() is under way
          THEN /\ safeSql' = wrapped
               /\ stages' = <<"validate", "whitelist", "limit">>
               /\ pc' = "pgConnect"
               /\ UNCHANGED <<result, execCount, conn>>
        ELSE /\ safeSql' = wrapped
             /\ Fail(Failure("UnsupportedBackendError"),
                     <<"validate", "whitelist", "limit">>)
             /\ UNCHANGED <<execCount, conn>>
  /\ UNCHANGED <<dbRows, pending>>
  /\ UNCHANGED configVars
  /\ UNCHANGED maskVars

\* db.all calls back with rows: resolve, db.close(), maskRows, return
SqliteAllRows(n) ==
  /\ pc = "sqliteAll"
  /\ n \in 0..RowBound(safeSql, input)
  /\ dbRows' = SubSeq(DbTable, 1, n)
  /\ conn' = "closed"
  /\ stages' = Append(stages, "mask")
  /\ result' = Returned(<<JsonItem(maskRows(SubSeq(DbTable, 1, n)))>>)
  /\ pc' = "done"
  /\ UNCHANGED <<tool, input, safeSql, execCount, pending>>
  /\ UNCHANGED configVars
  /\ UNCHANGED maskVars

\* db.all calls back with an error: reject, the await throws and the
\* handler ends before db.close()
SqliteAllError ==
  /\ pc = "sqliteAll"
  /\ Fail(Failure("ExecutionError"), stages)
  /\ UNCHANGED <<tool, input, safeSql, execCount, conn, dbRows, pending>>
  /\ UNCHANGED configVars
  /\ UNCHANGED maskVars

\* c.connect() resolves: fn(c) starts c.query(safeSql) inside the try
PgConnected ==
  /\ pc = "pgConnect"
  /\ conn' = "open"
  /\ execCount' = execCount + 1
  /\ stages' = Append(stages, "execute")
  /\ pc' = "pgQuery"
  /\ UNCHANGED <<tool, input, safeSql, dbRows, pending, result>>
  /\ UNCHANGED configVars
  /\ UNCHANGED maskVars

\* c.connect() rejects before the try block: no session was established
PgConnectError ==
  /\ pc = "pgConnect"
  /\ Fail(Failure("ExecutionError"), stages)
  /\ UNCHANGED <<tool, input, safeSql, execCount, conn, dbRows, pending>>
  /\ UNCHANGED configVars
  /\ UNCHANGED maskVars

\* c.query resolves: the finally block starts c.end()
PgQueryRows(n) ==
  /\ pc = "pgQuery"
  /\ n \in 0..RowBound(safeSql, input)
  /\ dbRows' = SubSeq(DbTable, 1, n)
  /\ pending' = "rows"
  /\ pc' = "pgEnd"
  /\ UNCHANGED <<tool, input, safeSql, stages, execCount, conn, result>>
  /\ UNCHANGED configVars
  /\ UNCHANGED maskVars

\* c.query rejects: the finally block starts c.end()
PgQueryError ==
  /\ pc = "pgQuery"
  /\ pending' = "error"
  /\ pc' = "pgEnd"
  /\ UNCHANGED <<tool, input, safeSql, stages, execCount, conn, dbRows, result>>
  /\ UNCHANGED configVars
  /\ UNCHANGED maskVars

\* c.end() resolves: withPgClient returns the rows or rethrows, and the
\* handler masks and returns
PgEnded ==
  /\ pc = "pgEnd"
  /\ conn' = "closed"
  /\ pc' = "done"
  /\ IF pending = "rows"
       THEN /\ stages' = Append(stages, "mask")
            /\ result' = Returned(<<JsonItem(maskRows(dbRows))>>)
       ELSE /\ stages' = stages
            /\ result' = Thrown(Failure("ExecutionError"))
  /\ UNCHANGED <<tool, input, safeSql, execCount, dbRows, pending>>
  /\ UNCHANGED configVars
  /\ UNCHANGED maskVars

(* sql.explain_safe: the safety checks, then the generic outline *)
ExplainCall(req) ==
  /\ pc = "idle"
  /\ tool' = "explain"
  /\ input' = Trimmed(req)
  /\ LET raw == Trimmed(req)
         sel == assertSelectOnly(raw)
         wl == assertWhitelisted(raw, SAFE_VIEWS)
     IN IF sel # "ok" THEN Fail(Failure(sel), <<"validate">>)
        ELSE IF wl.kind # "ok" THEN Fail(wl, <<"validate", "whitelist">>)
        ELSE /\ pc' = "done"
             /\ stages' = <<"validate", "whitelist", "render">>
             /\ result' = Returned(<<TextItem(ExplainNotice),
                                     TextItem(formatTree(genericTree, 0))>>)
  /\ UNCHANGED <<safeSql, execCount, conn, dbRows, pending>>
  /\ UNCHANGED configVars
  /\ UNCHANGED maskVars

Next ==
  \/ \E req \in Requests : QueryCall(req)
  \/ \E n \in 0..MaxDbRows : SqliteAllRows(n)
  \/ SqliteAllError
  \/ PgConnected
  \/ PgConnectError
  \/ \E n \in 0..MaxDbRows : PgQueryRows(n)
  \/ PgQueryError
  \/ PgEnded
  \/ \E req \in Requests : ExplainCall(req)

Spec == Init /\ [][Next]_vars

(* ----------------------- masking specification ------------------------- *)
(* maskRows as a pure function: the rows are drawn from a bounded set of   *)
(* column names and values, and one step applies maskRows to them.         *)
Chunks ==
  {Chars("987"), Chars("65"), Chars("4321"), <<"-">>, Chars("ab"),
   Chars("@ab"), Chars(".ab")}

RECURSIVE ChunkStrings(_)
\* the concatenations of at most n chunks
ChunkStrings(n) ==
  IF n = 0 THEN {<<>>}
  ELSE LET shorter == ChunkStrings(n - 1)
       IN shorter \cup {s \o c : s \in shorter, c \in Chunks}

ExampleStrings ==
  {Chars("987-65-4321"), Chars("john.doe@example.com"),
   Chars("a@mail.example.com"), Chars("555-123-4567"),
   Chars("+1 (555) 123-4567"), Chars("call 5551234567 now"),
   Chars("hello world")}

MaskValues ==
  {StrVal(s) : s \in ChunkStrings(MaxChunks) \cup ExampleStrings}
  \cup {NullVal, NumVal(7), BoolVal(TRUE)}

MaskColumns == {Chars("notes"), Chars("Email"), Chars("Contact_Number")}

\* one cell alone, or the cell in a row of two columns followed by a
\* second row
MaskInputs ==
  {<<<<<<c, v>>>>>> : c \in MaskColumns, v \in MaskValues}
  \cup {<<<<<<c, v>>, <<Chars("id"), NumVal(7)>>>>, Row2>> :
          c \in MaskColumns, v \in MaskValues}

InitMask ==
  /\ DB_TYPE = ReadDbType(<<>>)
  /\ SAFE_VIEWS = ReadSafeViews(<<>>)
  /\ IdleCall
  /\ mrows \in MaskInputs
  /\ mout = <<>>
  /\ mpc = "start"

\* const masked = maskRows(rows)
MaskRowsStep ==
  /\ mpc = "start"
  /\ mout' = maskRows(mrows)
  /\ mpc' = "done"
  /\ UNCHANGED mrows
  /\ UNCHANGED callVars
  /\ UNCHANGED configVars

NextMask == MaskRowsStep

SpecMask == InitMask /\ [][NextMask]_vars

(* ------------------------------ claims --------------------------------- *)
QueryDone == pc = "done" /\ tool = "query"
QueryReturned == QueryDone /\ result.status = "ok"
ExplainReturned == pc = "done" /\ tool = "explain" /\ result.status = "ok"

\* C1: every successful query call delivers at most MAX_ROWS rows, whatever
\* LIMIT the text carries.
C1_RowsWithinCap ==
  QueryReturned =>
    /\ Len(result.content[1].rows) <= MAX_ROWS
    /\ result.content[1].rowsReturned <= MAX_ROWS

IsPrefix(s, t) == Len(s) <= Len(t) /\ SubSeq(t, 1, Len(s)) = s

StageOrder(t) ==
  IF t = "explain" THEN <<"validate", "whitelist", "render">>
  ELSE <<"validate", "whitelist", "limit", "execute", "mask">>

\* the stage at which each kind of failure arises
FailedStages(kind) ==
  CASE kind \in {"ParseError", "MultipleStatementsError", "NotSelectError"} ->
         {<<"validate">>}
    [] kind = "ForbiddenRelationError" -> {<<"validate", "whitelist">>}
    [] kind = "UnsupportedBackendError" -> {<<"validate", "whitelist", "limit">>}
    [] kind = "ExecutionError" ->
         {<<"validate", "whitelist", "limit">>,
          <<"validate", "whitelist", "limit", "execute">>}
    [] OTHER -> {}

\* C2: the stages of a call run in the fixed order; a failure ends the call
\* with no rows and no later stage; a text of several statements fails in
\* validation before any relation check or execution; the execution is
\* started at most once and only after validation and the whitelist check.
C2_StagesInOrderFailuresTerminal ==
  /\ pc # "idle" => IsPrefix(stages, StageOrder(tool))
  /\ result.status = "error" =>
       /\ pc = "done"
       /\ result.content = <<>>
       /\ stages \in FailedStages(result.error.kind)
  /\ (pc # "idle" /\ Len(input.stmts) > 1) =>
       /\ stages = <<"validate">>
       /\ result.status = "error"
       /\ result.error.kind \in {"MultipleStatementsError", "ParseError"}
       /\ ~input.garbage => result.error.kind = "MultipleStatementsError"
       /\ execCount = 0
       /\ conn = "none"
  /\ execCount \in {0, 1}
  /\ execCount = 1 <=> "execute" \in Range(stages)
  /\ (execCount = 1 \/ conn # "none") =>
       /\ tool = "query"
       /\ ~input.garbage
       /\ Len(input.stmts) = 1
       /\ input.stmts[1].type = Chars("select")
       /\ \A i \in 1..Len(tablesUsed(input)) : tablesUsed(input)[i] \in Range(SAFE_VIEWS)
       /\ IsPrefix(<<"validate", "whitelist", "limit", "execute">>, stages)

C2_Witness ==
  /\ QueryDone
  /\ Len(input.stmts) > 1
  /\ input.stmts[1].from = <<Ref(None, SafeView)>>
  /\ SafeView \in Range(SAFE_VIEWS)
  /\ result.error.kind = "MultipleStatementsError"

\* C3: no call ends with its database connection still open, whether the
\* execution succeeded or failed, on either backend.
C3_ConnectionReleased == pc = "done" => conn # "open"

\* a relation reference as lowercase "schema.name", or "name" without schema
NormRef(r) ==
  ToLower(IF r.schema = None THEN r.table ELSE r.schema \o <<".">> \o r.table)

Offending(req, whitelist) ==
  {NormRef(r) : r \in Range(StmtRefs(req.stmts[1]))} \ Range(whitelist)

Validated == pc # "idle" /\ assertSelectOnly(input) = "ok"

\* C4: for a validated SELECT the whitelist check succeeds exactly when every
\* normalized relation reference is in the whitelist; when it fails it names
\* one of the references outside the whitelist and lists the whitelist.
C4_WhitelistCheck ==
  Validated =>
    /\ result.error.kind # "ForbiddenRelationError"
         <=> Offending(input, SAFE_VIEWS) = {}
    /\ result.error.kind = "ForbiddenRelationError" =>
         /\ result.error.name \in Offending(input, SAFE_VIEWS)
         /\ result.error.allowed = Join(Dedup(SAFE_VIEWS), Chars(", "))

Wrapper(sql, cap) ==
  Chars("SELECT * FROM (") \o sql \o Chars(") AS safe_sub LIMIT ") \o NumToStr(cap)

\* C5: the row-cap rewrite leaves the text unchanged exactly when the
\* statement has a LIMIT at its top level; any other statement, one whose
\* only LIMIT text is in a subquery or a string literal included, is wrapped
\* and returns at most the cap.
C5_RowCapRewrite ==
  (tool = "query" /\ "limit" \in Range(stages)) =>
    /\ safeSql = input.sql <=> input.stmts[1].top > 0
    /\ input.stmts[1].top = 0 => safeSql = Wrapper(input.sql, MAX_ROWS)
    /\ (input.stmts[1].top = 0 /\ QueryReturned) =>
         Len(result.content[1].rows) <= MAX_ROWS

(* the first cell of the masked rows *)
CellCol == mrows[1][1][1]
CellIn == mrows[1][1][2]
CellOut == mout[1][1][2]
Masked == mpc = "done"

Signal(col, s) ==
  shouldMaskByColumn(col) \/ looksLikeEmail(s) \/ looksLikePhone(s) \/ looksLikeSSN(s)

\* the masker chosen by the priority SSN > email > phone > generic
PriorityMask(s) ==
  IF looksLikeSSN(s) THEN maskSSN(s)
  ELSE IF looksLikeEmail(s) THEN maskEmail(s)
  ELSE IF looksLikePhone(s) THEN maskPhone(s)
  ELSE maskGeneric(s)

SsnExample == Chars("987-65-4321")

\* C6: when a signal fires, maskValue gives the result of the one masker
\* chosen by the priority SSN > email > phone > generic; 987-65-4321 in a
\* column without name signal is masked to ***-**-4321.
C6_MaskerPriority ==
  (Masked /\ CellIn.kind = "string" /\ Signal(CellCol, CellIn.s)) =>
    /\ CellOut = StrVal(PriorityMask(CellIn.s))
    /\ CellIn.s = SsnExample => CellOut = StrVal(Chars("***-**-4321"))

C6_Witness ==
  /\ Masked
  /\ CellCol = Chars("notes")
  /\ CellIn = StrVal(SsnExample)
  /\ looksLikePhone(SsnExample)
  /\ CellOut = StrVal(Chars("***-**-4321"))

RoutedToPhone(col, v) ==
  /\ v.kind = "string"
  /\ Signal(col, v.s)
  /\ ~looksLikeEmail(v.s)
  /\ ~looksLikeSSN(v.s)
  /\ looksLikePhone(v.s)

DigitsAfter(s, i) == Cardinality({j \in (i + 1)..Len(s) : IsDigit(s[j])})

\* every digit but the last two replaced by "*", all else kept in place
AllButLastTwoDigits(s) ==
  [i \in 1..Len(s) |-> IF IsDigit(s[i]) /\ DigitsAfter(s, i) >= 2 THEN "*" ELSE s[i]]

\* C7: the phone masker keeps the length, every non-digit character and the
\* last two digits, and replaces every other digit by "*".
C7_PhoneMasker ==
  (Masked /\ RoutedToPhone(CellCol, CellIn)) =>
    CellOut = StrVal(AllButLastTwoDigits(CellIn.s))

\* local part: first and last character kept (all masked up to length 2);
\* domain: every label but the last masked, every dot kept
LabelsMasked(s) ==
  LET at == CHOOSE p \in 1..Len(s) : s[p] = "@"
      lastDot == CHOOSE j \in (at + 1)..Len(s) :
                   s[j] = "." /\ \A k \in (j + 1)..Len(s) : s[k] # "."
  IN [i \in 1..Len(s) |->
        IF i < at
          THEN (IF at - 1 <= 2 \/ (i # 1 /\ i # at - 1) THEN "*" ELSE s[i])
        ELSE IF i = at \/ s[i] = "." \/ i > lastDot THEN s[i]
        ELSE "*"]

\* C8: the email masker keeps the first and last character of the local
\* part, and in the domain masks every label but the last and keeps every
\* dot, for domains of any number of labels.
C8_EmailMasker ==
  (Masked /\ CellIn.kind = "string" /\ looksLikeEmail(CellIn.s)) =>
    CellOut = StrVal(LabelsMasked(CellIn.s))

\* the rows and keys are kept, values that are not strings and strings
\* without a signal are passed through, masked values are strings
FrameKept ==
  /\ Len(mout) = Len(mrows)
  /\ \A r \in 1..Len(mrows) :
       /\ Len(mout[r]) = Len(mrows[r])
       /\ \A c \in 1..Len(mrows[r]) :
            LET key == mrows[r][c][1]
                in == mrows[r][c][2]
                out == mout[r][c][2]
            IN /\ mout[r][c][1] = key
               /\ in.kind # "string" => out = in
               /\ (in.kind = "string" /\ ~Signal(key, in.s)) => out = in
               /\ in.kind = "string" => out.kind = "string"

\* C9: maskRows returns new rows with the same number of rows and the same
\* keys in the same order, leaves its input as it was, passes through every
\* value that is not a string and every string without a signal, and a
\* masked value is still a string.
C9_MaskRowsFrame ==
  /\ [](Masked => FrameKept)
  /\ [][mrows' = mrows]_vars

C9_Witness ==
  /\ Masked
  /\ Len(mrows) = 2
  /\ CellCol = Chars("Email")
  /\ CellIn = StrVal(Chars("hello world"))
  /\ CellOut # CellIn
  /\ mout[1][2] = <<Chars("id"), NumVal(7)>>
  /\ mrows[2][2][2] = NullVal
  /\ mout[2] = mrows[2]

TwoLineOutline == Chars("- Select") \o <<"\n">> \o Chars("  - Scan")

RECURSIVE PreOrderLines(_, _)
\* one line per node in pre-order: two spaces per level, then "- <op>"
PreOrderLines(n, depth) ==
  <<[i \in 1..(2 * depth) |-> " "] \o Chars("- ") \o n.op>>
  \o (IF n.children = <<>> THEN <<>>
      ELSE PreOrderLines(n.children[1], depth + 1))

====
